---- MODULE Spec2Model ----
(***************************************************************************)
(* Model of src/leds_service.py: the LED animation service of a ReSpeaker  *)
(* ring (LedsService, Animation, ReSpeakerAnimator).                       *)
(*                                                                         *)
(* The playback part models every caller of LedsService.start_animation as *)
(* a thread that steps through get_animation and ReSpeakerAnimator.run one *)
(* shared-memory access or Transport write at a time.  The codec part      *)
(* models ReSpeakerAnimator.write / to_bytearray and ReSpeakerAnimator.read *)
(* as they compute their packets.                                          *)
(***************************************************************************)
EXTENDS Integers, Sequences, FiniteSets, TLC

(***************************************************************************)
(* Bounds of the model.                                                    *)
(***************************************************************************)
\* identifiers are drawn from 1..TokenMax (the code draws from 1..100000)
TokenMax == 2
\* start_animation calls made by concurrent callers in one behaviour
MaxRequests == 3
\* start_animation calls made by the single caller of SpecSeq
MaxSeqRequests == 2

\* the callers of start_animation
Threads == {"A", "B"}

(***************************************************************************)
(* LedsService.State                                                       *)
(***************************************************************************)
none == 0
waking_up == 1
standby == 2
listening == 3
loading == 4
notify == 5
intent_recognized == 6
error == 7

State == {none, waking_up, standby, listening, loading, notify,
          intent_recognized, error}

\* the states requested by the concurrent callers of Spec
ConcStates == {none, error}

(***************************************************************************)
(* Python helpers: range(n), reversed(s), dict.items()                     *)
(***************************************************************************)
Range(n) == [i \in 1..n |-> i - 1]

Reversed(s) == [i \in 1..Len(s) |-> s[Len(s) + 1 - i]]

\* the (key, value) pairs of a dict of small ints, in iteration order
\* (ascending key)
Items(item) ==
    LET ks == DOMAIN item
        nth(i) == CHOOSE k \in ks : Cardinality({x \in ks : x < k}) = i - 1
    IN  [i \in 1..Cardinality(ks) |-> <<nth(i), item[nth(i)]>>]

(***************************************************************************)
(* ReSpeakerAnimator.__init__: the frame tables                            *)
(***************************************************************************)
\* a faulty variant of led_dict: LED_3 .. LED_13 one address further on
led_dict_13 == <<3, 4, 5, 6, 7, 8, 9, 10, 11, 12, 13, 14, 15>>

\* led_dict.values(): register addresses of LED_1 .. LED_13
led_dict == <<3, 4, 4, 5, 6, 7, 8, 9, 10, 11, 12, 13, 14>>

\* {value: v for value in self.led_dict.values()}
AllLeds(v) == [k \in {led_dict[i] : i \in DOMAIN led_dict} |-> v]

animation_none == <<AllLeds(0)>>

\* a faulty variant of animation_waking_up: the descent starts from 19
animation_waking_up_sym ==
    LET sts == Range(20) \o Reversed(Range(20))
    IN  [f \in DOMAIN sts |-> AllLeds(2 * sts[f])]

animation_waking_up ==
    LET sts == Range(20) \o Reversed(Range(15))
    IN  [f \in DOMAIN sts |-> AllLeds(2 * sts[f])]

animation_standby ==
    LET sts == Range(31) \o Reversed(Range(31))
    IN  [f \in DOMAIN sts |-> AllLeds(sts[f])]

\* a faulty variant of value_green: the dim LED trails instead of leading
value_green_trail(i, j, N) ==
    IF i = j THEN 0
    ELSE IF i = (j - 1) % N THEN 0
    ELSE IF i = (j + 1) % N THEN 16384
    ELSE IF i = (j + 2) % N \/ i = (j - 2) % N THEN 32512
    ELSE 65024

value_green(i, j, N) ==
    IF i = j THEN 0
    ELSE IF i = (j + 1) % N THEN 0
    ELSE IF i = (j - 1) % N THEN 16384
    ELSE IF i = (j + 2) % N \/ i = (j - 2) % N THEN 32512
    ELSE 65024

animation_listening ==
    LET leds == [j \in 1..12 |-> 2 + j]
        N == Len(leds)
    IN  [f \in 1..N |-> [k \in {leds[j] : j \in 1..N} |->
                            value_green(f - 1, k - 3, N)]]

\* a faulty variant of animation_loading: the peak frame is not repeated
animation_loading_29 ==
    LET sts == Range(15) \o Reversed(Range(14))
    IN  [f \in DOMAIN sts |-> AllLeds(16 * sts[f])]

animation_loading ==
    LET sts == Range(15) \o Reversed(Range(15))
    IN  [f \in DOMAIN sts |-> AllLeds(16 * sts[f])]

\* for frame in range(0, 2): append(color frame); append(black frame)
Blink(color) == <<AllLeds(color), AllLeds(0), AllLeds(color), AllLeds(0)>>

animation_notify == Blink(255)

animation_intent_recognized == Blink(65280)

animation_error == Blink(16711680)

(***************************************************************************)
(* ReSpeakerAnimator.run: the table and the sleep (in ms) of each branch   *)
(***************************************************************************)
Table(s) ==
    CASE s = none -> animation_none
      [] s = waking_up -> animation_waking_up
      [] s = standby -> animation_standby
      [] s = listening -> animation_listening
      [] s = loading -> animation_loading
      [] s = notify -> animation_notify
      [] s = intent_recognized -> animation_intent_recognized
      [] s = error -> animation_error

Delay(s) ==
    CASE s = none -> 500
      [] s = waking_up -> 20
      [] s = standby -> 50
      [] s = listening -> 10
      [] s = loading -> 10
      [] s = notify -> 100
      [] s = intent_recognized -> 100
      [] s = error -> 200

(***************************************************************************)
(* ReSpeakerAnimator.write / to_bytearray                                  *)
(***************************************************************************)
\* a faulty variant of Pack: the bytes in big-endian order
Pack_be(data, n) == [i \in 1..n |-> (data \div (256 ^ (n - i))) % 256]

\* struct.pack('<I', data) / struct.pack('<H', data): n bytes, little-endian
Pack(data, n) == [i \in 1..n |-> (data \div (256 ^ (i - 1))) % 256]

\* to_bytearray: a Python value is modelled as [type, v]; an int gives
\* bytearray([data & 0xFF]), a bytearray, str or list gives its bytes, and
\* any other type raises TypeError
to_bytearray(data) ==
    CASE data.type = "int" -> <<data.v % 256>>
      [] data.type \in {"bytearray", "str", "list"} -> data.v
      [] OTHER -> "TypeError"

\* the packet handed to hid.write for an int data
write(address, data) ==
    LET d == IF data > 65535 THEN [type |-> "str", v |-> Pack(data, 4)]
             ELSE IF data > 255 THEN [type |-> "str", v |-> Pack(data, 2)]
             ELSE [type |-> "int", v |-> data]
        bytes == to_bytearray(d)
        length == Len(bytes)
    IN  <<address % 256, (address \div 256) % 128,
          length % 256, (length \div 256) % 256>> \o bytes

(***************************************************************************)
(* State                                                                   *)
(***************************************************************************)
VARIABLES
    device,      \* HID.find() finds the USB device with both endpoints
    svc,         \* "new" before LedsService.__init__ has run, then "ready"
    animator,    \* LedsService has its attribute self.animator
    initLog,     \* packets ReSpeakerAnimator.__init__ handed to hid.write
    cellId,      \* Animation.id of the one shared Animation instance
    cellActive,  \* Animation.active of the one shared Animation instance
    pc,          \* where each caller is inside start_animation
    arg,         \* animation_id passed to start_animation
    tok,         \* the caller's local identifier (run's parameter id)
    branch,      \* the branch of run the caller took
    fi,          \* index of the frame (item) the caller's loop is at
    pi,          \* index of the (k, v) pair the caller writes next
    log,         \* packets the caller's current playback handed to hid.write
    slept,       \* milliseconds the caller's current playback slept
    exc,         \* exception that left the caller's start_animation call
    requests,    \* number of start_animation calls so far
    minted,      \* identifiers get_animation has produced so far
    superseded,  \* whether another identifier was stored after the caller's
                 \* own: "no", "early" (before the caller began a frame) or
                 \* "mid" (after it began one)
    op,          \* the register operation a client of the animator called
    opAddr,      \* its address argument
    opArg,       \* its data (write) or length (read) argument
    sent,        \* packets that operation handed to hid.write
    frames,      \* frames hid.read returned to that operation, in order
    rpc,         \* "idle", "reading" (inside read's loop) or "returned"
    result       \* what read returned: <<"None">> or <<"data", bytes>>

regVars == <<op, opAddr, opArg, sent, frames, rpc, result>>

playVars == <<device, svc, animator, initLog, cellId, cellActive, pc, arg,
              tok, branch, fi, pi, log, slept, exc, requests, minted, superseded>>

vars == <<playVars, regVars>>

Resting == {"idle", "completed", "cancelled", "raised"}

Playing(t) == pc[t] \notin Resting

\* the caller has begun a frame of its table: it passed a per-frame check
MidPlayback(t) ==
    \/ pc[t] \in {"write", "sleep"}
    \/ pc[t] \in {"interact", "check"} /\ fi[t] > 1

\* str(n): the decimal digits of n
RECURSIVE Str(_)
Str(n) == IF n < 10 THEN <<n>> ELSE Str(n \div 10) \o <<n % 10>>

PlayInit ==
    /\ device \in BOOLEAN
    /\ svc = "new"
    /\ animator = FALSE
    /\ initLog = <<>>
    /\ cellId = <<>>
    /\ cellActive = none
    /\ pc = [t \in Threads |-> "idle"]
    /\ arg = [t \in Threads |-> none]
    /\ tok = [t \in Threads |-> <<>>]
    /\ branch = [t \in Threads |-> none]
    /\ fi = [t \in Threads |-> 0]
    /\ pi = [t \in Threads |-> 0]
    /\ log = [t \in Threads |-> <<>>]
    /\ slept = [t \in Threads |-> 0]
    /\ exc = [t \in Threads |-> "none"]
    /\ requests = 0
    /\ minted = {}
    /\ superseded = [t \in Threads |-> "no"]

(***************************************************************************)
(* LedsService.__init__ and ReSpeakerAnimator.__init__                     *)
(***************************************************************************)
\* a faulty variant of ServiceInit: the constructor writes the mode twice
ServiceInit_twice ==
    /\ svc = "new"
    /\ svc' = "ready"
    /\ animator' = device
    /\ initLog' = IF device THEN <<write(0, 6), write(0, 6)>> ELSE <<>>
    /\ UNCHANGED <<device, cellId, cellActive, pc, arg, tok, branch, fi, pi,
                   log, slept, exc, requests, minted, superseded, regVars>>

\* led_device = HID.find(); with a device the animator is built, and its
\* constructor writes init_data 6 to init_addr 0; without one nothing is set
ServiceInit ==
    /\ svc = "new"
    /\ svc' = "ready"
    /\ animator' = device
    /\ initLog' = IF device THEN <<write(0, 6)>> ELSE <<>>
    /\ UNCHANGED <<device, cellId, cellActive, pc, arg, tok, branch, fi, pi,
                   log, slept, exc, requests, minted, superseded,
                   op, opAddr, opArg, sent, frames, rpc, result>>

(***************************************************************************)
(* LedsService.start_animation / get_animation / Animation.__init__        *)
(***************************************************************************)
\* Animation derives from Singleton: every Animation(...) is the one shared
\* instance, and its constructor assigns that instance's fields again
Singleton_id(id) == cellId' = id

Singleton_active(active) == cellActive' = active

\* the first pc of an iteration of run's loop: the error branch opens the
\* interactive console before it compares the identifiers
LoopHead(s) == IF s = error THEN "interact" ELSE "check"

\* start_animation(animation_id) up to Animation.__init__'s self.id = id.
\* Reading self.animator raises AttributeError when __init__ never set it.
StartAnimation(t, s) ==
    /\ svc = "ready"
    /\ pc[t] \in Resting
    /\ requests' = requests + 1
    /\ arg' = [arg EXCEPT ![t] = s]
    /\ fi' = [fi EXCEPT ![t] = 0]
    /\ pi' = [pi EXCEPT ![t] = 0]
    /\ log' = [log EXCEPT ![t] = <<>>]
    /\ slept' = [slept EXCEPT ![t] = 0]
    /\ branch' = [branch EXCEPT ![t] = none]
    /\ IF ~animator
       THEN /\ pc' = [pc EXCEPT ![t] = "raised"]
            /\ exc' = [exc EXCEPT ![t] = "AttributeError"]
            /\ tok' = [tok EXCEPT ![t] = <<>>]
            /\ superseded' = [superseded EXCEPT ![t] = "no"]
            /\ UNCHANGED <<cellId, minted>>
       ELSE \E n \in 1..TokenMax :
            LET identifier == Str(n) IN
            /\ pc' = [pc EXCEPT ![t] = "set_active"]
            /\ exc' = [exc EXCEPT ![t] = "none"]
            /\ tok' = [tok EXCEPT ![t] = identifier]
            /\ Singleton_id(identifier)
            /\ minted' = minted \cup {identifier}
            /\ superseded' = [u \in Threads |->
                   IF u = t THEN "no"
                   ELSE IF Playing(u) /\ tok[u] # identifier
                           /\ superseded[u] # "mid"
                        THEN (IF MidPlayback(u) THEN "mid" ELSE "early")
                        ELSE superseded[u]]
    /\ UNCHANGED <<device, svc, animator, initLog, cellActive,
                   op, opAddr, opArg, sent, frames, rpc, result>>

\* Animation.__init__: self.active = active, then get_animation returns
SetActive(t) ==
    /\ pc[t] = "set_active"
    /\ Singleton_active(arg[t])
    /\ pc' = [pc EXCEPT ![t] = "dispatch"]
    /\ UNCHANGED <<device, svc, animator, initLog, cellId, arg, tok, branch,
                   fi, pi, log, slept, exc, requests, minted,
                   superseded,
                   op, opAddr, opArg, sent, frames, rpc, result>>

(***************************************************************************)
(* ReSpeakerAnimator.run                                                   *)
(***************************************************************************)
\* the if/elif chain on animation.active, and the start of the for loop
Dispatch(t) ==
    /\ pc[t] = "dispatch"
    /\ branch' = [branch EXCEPT ![t] = cellActive]
    /\ fi' = [fi EXCEPT ![t] = 1]
    /\ pc' = [pc EXCEPT ![t] = LoopHead(cellActive)]
    /\ UNCHANGED <<device, svc, animator, initLog, cellId, cellActive, arg,
                   tok, pi, log, slept, exc, requests, minted,
                   superseded,
                   op, opAddr, opArg, sent, frames, rpc, result>>

\* code.interact(...) in the error branch returns when its console ends
Interact(t) ==
    /\ pc[t] = "interact"
    /\ pc' = [pc EXCEPT ![t] = "check"]
    /\ UNCHANGED <<device, svc, animator, initLog, cellId, cellActive, arg,
                   tok, branch, fi, pi, log, slept, exc, requests, minted, superseded,
                   op, opAddr, opArg, sent, frames, rpc, result>>

\* a faulty variant of Check: the comparison inverted
Check_eq(t) ==
    /\ pc[t] = "check"
    /\ IF cellId = tok[t]
       THEN /\ pc' = [pc EXCEPT ![t] = "cancelled"]
            /\ pi' = pi
       ELSE /\ pc' = [pc EXCEPT ![t] = "write"]
            /\ pi' = [pi EXCEPT ![t] = 1]
    /\ UNCHANGED <<device, svc, animator, initLog, cellId, cellActive, arg,
                   tok, branch, fi, log, slept, exc, requests, minted,
                   superseded, regVars>>

\* if animation.id != id: break
Check(t) ==
    /\ pc[t] = "check"
    /\ IF cellId # tok[t]
       THEN /\ pc' = [pc EXCEPT ![t] = "cancelled"]
            /\ pi' = pi
       ELSE /\ pc' = [pc EXCEPT ![t] = "write"]
            /\ pi' = [pi EXCEPT ![t] = 1]
    /\ UNCHANGED <<device, svc, animator, initLog, cellId, cellActive, arg,
                   tok, branch, fi, log, slept, exc, requests, minted, superseded,
                   op, opAddr, opArg, sent, frames, rpc, result>>

\* a faulty variant of WritePair: the first byte of the identifier is added
\* to the value written
WritePair_tok(t) ==
    /\ pc[t] = "write"
    /\ LET items == Items(Table(branch[t])[fi[t]])
           kv == items[pi[t]]
           digit == IF tok[t] = Str(1) THEN 1 ELSE 2
       IN  /\ log' = [log EXCEPT ![t] = Append(@, write(kv[1], kv[2] + digit))]
           /\ IF pi[t] = Len(items)
              THEN /\ pc' = [pc EXCEPT ![t] = "sleep"]
                   /\ pi' = pi
              ELSE /\ pc' = pc
                   /\ pi' = [pi EXCEPT ![t] = @ + 1]
    /\ UNCHANGED <<device, svc, animator, initLog, cellId, cellActive, arg,
                   tok, branch, fi, slept, exc, requests, minted,
                   superseded, regVars>>

\* a faulty variant of WritePair: the identifiers are compared before every
\* pair, and the loop is left as soon as they differ
WritePair_eager(t) ==
    /\ pc[t] = "write"
    /\ IF cellId # tok[t]
       THEN /\ pc' = [pc EXCEPT ![t] = "cancelled"]
            /\ UNCHANGED <<log, pi>>
       ELSE LET items == Items(Table(branch[t])[fi[t]])
                kv == items[pi[t]]
            IN  /\ log' = [log EXCEPT ![t] = Append(@, write(kv[1], kv[2]))]
                /\ IF pi[t] = Len(items)
                   THEN /\ pc' = [pc EXCEPT ![t] = "sleep"]
                        /\ pi' = pi
                   ELSE /\ pc' = pc
                        /\ pi' = [pi EXCEPT ![t] = @ + 1]
    /\ UNCHANGED <<device, svc, animator, initLog, cellId, cellActive, arg,
                   tok, branch, fi, slept, exc, requests, minted,
                   superseded, regVars>>

\* one self.write(k, v) of "for k, v in item.items()"
WritePair(t) ==
    /\ pc[t] = "write"
    /\ LET items == Items(Table(branch[t])[fi[t]])
           kv == items[pi[t]]
       IN  /\ log' = [log EXCEPT ![t] = Append(@, write(kv[1], kv[2]))]
           /\ IF pi[t] = Len(items)
              THEN /\ pc' = [pc EXCEPT ![t] = "sleep"]
                   /\ pi' = pi
              ELSE /\ pc' = pc
                   /\ pi' = [pi EXCEPT ![t] = @ + 1]
    /\ UNCHANGED <<device, svc, animator, initLog, cellId, cellActive, arg,
                   tok, branch, fi, slept, exc, requests, minted,
                   superseded,
                   op, opAddr, opArg, sent, frames, rpc, result>>

\* hid.write raises inside self.write(k, v): nothing in run or in
\* start_animation catches it
WritePairFail(t) ==
    /\ pc[t] = "write"
    /\ pc' = [pc EXCEPT ![t] = "raised"]
    /\ exc' = [exc EXCEPT ![t] = "USBError"]
    /\ UNCHANGED <<device, svc, animator, initLog, cellId, cellActive, arg,
                   tok, branch, fi, pi, log, slept, requests, minted, superseded,
                   op, opAddr, opArg, sent, frames, rpc, result>>

\* a faulty variant of Sleep: the loop steps over every second item
Sleep_skip(t) ==
    /\ pc[t] = "sleep"
    /\ slept' = [slept EXCEPT ![t] = @ + Delay(branch[t])]
    /\ IF fi[t] + 1 >= Len(Table(branch[t]))
       THEN /\ pc' = [pc EXCEPT ![t] = "completed"]
            /\ fi' = fi
       ELSE /\ pc' = [pc EXCEPT ![t] = LoopHead(branch[t])]
            /\ fi' = [fi EXCEPT ![t] = @ + 2]
    /\ UNCHANGED <<device, svc, animator, initLog, cellId, cellActive, arg,
                   tok, branch, pi, log, exc, requests, minted,
                   superseded, regVars>>

\* a faulty variant of Sleep: a playback that completes clears the cell
Sleep_release(t) ==
    /\ pc[t] = "sleep"
    /\ slept' = [slept EXCEPT ![t] = @ + Delay(branch[t])]
    /\ IF fi[t] = Len(Table(branch[t]))
       THEN /\ pc' = [pc EXCEPT ![t] = "completed"]
            /\ fi' = fi
            /\ cellId' = <<>>
       ELSE /\ pc' = [pc EXCEPT ![t] = LoopHead(branch[t])]
            /\ fi' = [fi EXCEPT ![t] = @ + 1]
            /\ cellId' = cellId
    /\ UNCHANGED <<device, svc, animator, initLog, cellActive, arg,
                   tok, branch, pi, log, exc, requests, minted,
                   superseded, regVars>>

\* time.sleep(...) of the branch, then the for loop takes the next item or
\* ends, and run and start_animation return
Sleep(t) ==
    /\ pc[t] = "sleep"
    /\ slept' = [slept EXCEPT ![t] = @ + Delay(branch[t])]
    /\ IF fi[t] = Len(Table(branch[t]))
       THEN /\ pc' = [pc EXCEPT ![t] = "completed"]
            /\ fi' = fi
       ELSE /\ pc' = [pc EXCEPT ![t] = LoopHead(branch[t])]
            /\ fi' = [fi EXCEPT ![t] = @ + 1]
    /\ UNCHANGED <<device, svc, animator, initLog, cellId, cellActive, arg,
                   tok, branch, pi, log, exc, requests, minted,
                   superseded,
                   op, opAddr, opArg, sent, frames, rpc, result>>

(***************************************************************************)
(* ReSpeakerAnimator.read, and write called as a register operation        *)
(***************************************************************************)
\* a faulty variant of ReadAttempts: one attempt more
ReadAttempts_7 == 6 + 1

\* for _ in range(6)
ReadAttempts == 6

\* register addresses, data values and lengths the register client passes
AddrSamples == {0, 3, 14, 255, 256, 4660, 32767, 32771, 65535, 70000}

DataSamples == {0, 6, 255, 256, 4660, 65535, 65536, 16711680, 305419896,
                2147483647}

ReadAddrSamples == {3, 4660, 32771, 70000}

LenSamples == {1, 2, 4}

\* frames hid.read may return: a voice-activity frame (0xFF, 0xFF), frames
\* with one 0xFF among the first two bytes, and a plain register response
FrameSamples == { <<255, 255, 0, 0, 1, 2, 3, 4>>,
                  <<255, 0, 0, 0, 5, 6, 7, 8>>,
                  <<0, 255, 0, 0, 9, 10, 11, 12>>,
                  <<3, 0, 2, 0, 13, 14, 15, 16>> }

RegInit ==
    /\ op = "none"
    /\ opAddr = 0
    /\ opArg = 0
    /\ sent = <<>>
    /\ frames = <<>>
    /\ rpc = "idle"
    /\ result = <<"None">>

\* a faulty variant of ReadRequest: the second byte without the | 0x80
ReadRequest_noflag(address, length) ==
    <<address % 256, (address \div 256) % 256,
      length % 256, (length \div 256) % 256>>

\* the request packet read hands to hid.write:
\* [address & 0xFF, (address >> 8) & 0xFF | 0x80, length & 0xFF, (length >> 8) & 0xFF]
ReadRequest(address, length) ==
    LET hi == (address \div 256) % 256
    IN  <<address % 256, IF hi >= 128 THEN hi ELSE hi + 128,
          length % 256, (length \div 256) % 256>>

\* if int(data[0]) != 0xFF and int(data[1]) != 0xFF
Accepts(data) == data[1] # 255 /\ data[2] # 255

\* data[4:(4 + length)]
Payload(data, length) ==
    SubSeq(data, 5, IF 4 + length > Len(data) THEN Len(data) ELSE 4 + length)

\* animator.write(address, data) with the device present
RegWrite(address, data) ==
    /\ svc = "ready" /\ animator
    /\ op = "none"
    /\ op' = "write"
    /\ opAddr' = address
    /\ opArg' = data
    /\ sent' = <<write(address, data)>>
    /\ rpc' = "returned"
    /\ UNCHANGED <<playVars, frames, result>>

\* animator.read(address, length) up to the hid.write of the request
ReadStart(address, length) ==
    /\ svc = "ready" /\ animator
    /\ op = "none"
    /\ op' = "read"
    /\ opAddr' = address
    /\ opArg' = length
    /\ sent' = <<ReadRequest(address, length)>>
    /\ rpc' = "reading"
    /\ UNCHANGED <<playVars, frames, result>>

\* one iteration of read's loop: data = self.hid.read(); an accepted frame
\* returns its payload, and the loop running out returns None
ReadFrame(data) ==
    /\ rpc = "reading"
    /\ Len(frames) < ReadAttempts
    /\ frames' = Append(frames, data)
    /\ IF Accepts(data)
       THEN /\ result' = <<"data", Payload(data, opArg)>>
            /\ rpc' = "returned"
       ELSE /\ result' = result
            /\ rpc' = IF Len(frames) + 1 = ReadAttempts
                      THEN "returned" ELSE "reading"
    /\ UNCHANGED <<playVars, op, opAddr, opArg, sent>>

(***************************************************************************)
(* Specifications                                                          *)
(***************************************************************************)
Init == PlayInit /\ RegInit

\* concurrent callers, reliable Transport
Next ==
    \/ ServiceInit
    \/ \E t \in Threads, s \in ConcStates :
           requests < MaxRequests /\ StartAnimation(t, s)
    \/ \E t \in Threads : SetActive(t)
    \/ \E t \in Threads : Dispatch(t)
    \/ \E t \in Threads : Interact(t)
    \/ \E t \in Threads : Check(t)
    \/ \E t \in Threads : WritePair(t)
    \/ \E t \in Threads : Sleep(t)

Spec == Init /\ [][Next]_vars

\* one caller, every state, reliable Transport
NextSeq ==
    \/ ServiceInit
    \/ \E s \in State : requests < MaxSeqRequests /\ StartAnimation("A", s)
    \/ SetActive("A")
    \/ Dispatch("A")
    \/ Interact("A")
    \/ Check("A")
    \/ WritePair("A")
    \/ Sleep("A")

SpecSeq == Init /\ [][NextSeq]_vars

\* one caller, every state, Transport writes may fail
NextFault ==
    \/ NextSeq
    \/ WritePairFail("A")

SpecFault == Init /\ [][NextFault]_vars

\* two requests of the same state one after the other, each with its own
\* identifier: the second is made when the first has completed
NextPair ==
    \/ ServiceInit
    \/ \E s \in State : pc["A"] = "idle" /\ StartAnimation("A", s)
    \/ pc["A"] = "completed" /\ pc["B"] = "idle" /\ StartAnimation("B", arg["A"])
    \/ \E t \in Threads : SetActive(t)
    \/ \E t \in Threads : Dispatch(t)
    \/ \E t \in Threads : Interact(t)
    \/ \E t \in Threads : Check(t)
    \/ \E t \in Threads : WritePair(t)
    \/ \E t \in Threads : Sleep(t)

SpecPair == Init /\ [][NextPair]_vars

\* two concurrent callers with one request each, reliable Transport
NextDuo ==
    \/ ServiceInit
    \/ \E t \in Threads, s \in ConcStates :
           pc[t] = "idle" /\ StartAnimation(t, s)
    \/ \E t \in Threads : SetActive(t)
    \/ \E t \in Threads : Dispatch(t)
    \/ \E t \in Threads : Interact(t)
    \/ \E t \in Threads : Check(t)
    \/ \E t \in Threads : WritePair(t)
    \/ \E t \in Threads : Sleep(t)

SpecDuo == Init /\ [][NextDuo]_vars

\* one register operation of a client of the animator
NextReg ==
    \/ ServiceInit
    \/ \E a \in AddrSamples, d \in DataSamples : RegWrite(a, d)
    \/ \E a \in ReadAddrSamples, n \in LenSamples : ReadStart(a, n)
    \/ \E f \in FrameSamples : ReadFrame(f)

SpecReg == Init /\ [][NextReg]_vars

(***************************************************************************)
(* Properties                                                              *)
(***************************************************************************)

\* C1: last request wins: once another identifier has been stored after a
\* playback's own, that playback hands no further packet to the Transport.
C1_LastRequestWins ==
    [][\A t \in Threads :
          superseded[t] # "no" => Len(log'[t]) <= Len(log[t])]_vars

\* C2: bounded cancellation: a playback that was superseded by a different
\* identifier in mid-playback passes no per-frame check afterwards (it
\* starts no new frame).
C2_NoCheckPassedOnceSuperseded ==
    [][\A t \in Threads :
          (superseded[t] = "mid" /\ pc[t] = "check") => pc'[t] # "write"]_vars

\* C3: at most one token is current and no identifier is minted twice:
\* every start_animation call mints an identifier not minted before, and at
\* most one running playback holds the identifier stored in the cell.
C3_OneCurrentNeverReused ==
    animator =>
        /\ Cardinality(minted) = requests
        /\ Cardinality({t \in Threads : Playing(t) /\ tok[t] = cellId}) <= 1

\* C4: without a device every start_animation call is a silent no-op: no
\* exception leaves it, nothing is written and the cell is not changed.
C4_AbsentDeviceNoOp ==
    (svc = "ready" /\ ~device) =>
        /\ \A t \in Threads :
              pc[t] # "raised" /\ exc[t] = "none" /\ log[t] = <<>>
        /\ cellId = <<>>
        /\ initLog = <<>>

\* the i-th packet of a complete playback of state s: frame by frame in
\* table order, and within a frame LED addresses 3..14 in ascending order
ExpectedPacket(s, i) ==
    LET f == ((i - 1) \div 12) + 1
        k == 3 + ((i - 1) % 12)
    IN  write(k, Table(s)[f][k])

\* C5: a playback that is not superseded writes every frame of its table,
\* in table order, exactly once, and then is Completed: what a playback has
\* written is always a prefix of its table's packets, a Completed playback
\* has written all of them and no more, and only a superseded playback is
\* Cancelled.
C5_PlaysTableOnce ==
    \A t \in Threads :
        LET n == 12 * Len(Table(branch[t])) IN
        /\ (pc[t] \in {"interact", "check", "write", "sleep", "completed",
                       "cancelled"})
              => /\ Len(log[t]) <= n
                 /\ \A i \in 1..Len(log[t]) :
                       log[t][i] = ExpectedPacket(branch[t], i)
        /\ (pc[t] = "completed") => Len(log[t]) = n
        /\ (pc[t] = "cancelled") => superseded[t] # "no"

C5_Witness ==
    /\ pc["A"] = "completed"
    /\ branch["A"] = standby
    /\ superseded["A"] = "no"
    /\ Len(log["A"]) = 744

\* the frame counts as the table of the specification lists them
ClaimedFrameCount(s) ==
    CASE s = none -> 1
      [] s = waking_up -> 35
      [] s = standby -> 61
      [] s = listening -> 12
      [] s = loading -> 29
      [] s = notify -> 4
      [] s = intent_recognized -> 4
      [] s = error -> 4

\* the frame counts with standby and loading repeating their peak frame
FrameCount(s) ==
    CASE s = standby -> 62
      [] s = loading -> 30
      [] OTHER -> ClaimedFrameCount(s)

DelayMs(s) ==
    CASE s = none -> 500
      [] s = waking_up -> 20
      [] s = standby -> 50
      [] s = listening -> 10
      [] s = loading -> 10
      [] s = notify -> 100
      [] s = intent_recognized -> 100
      [] s = error -> 200

PlayedAsCounted(t, count) ==
    /\ Len(Table(branch[t])) = count
    /\ fi[t] = count
    /\ Delay(branch[t]) = DelayMs(branch[t])
    /\ slept[t] = count * DelayMs(branch[t])

\* C6 as claimed: a completed playback has played the frame count of the
\* table (standby 61, loading 29), each frame followed by the table's delay.
C6_FrameCountsAsClaimed ==
    \A t \in Threads :
        pc[t] = "completed" => PlayedAsCounted(t, ClaimedFrameCount(branch[t]))

\* C6 amended: the same with standby 62 frames and loading 30 frames.
C6_FrameCountsAndDelays ==
    \A t \in Threads :
        pc[t] = "completed" => PlayedAsCounted(t, FrameCount(branch[t]))

C6_Witness ==
    /\ pc["A"] = "completed"
    /\ branch["A"] = standby
    /\ fi["A"] = 62
    /\ slept["A"] = 3100

\* C7: the write packet is the 4-byte header (address low byte, address
\* high byte masked to 7 bits, length low, length high) followed by the
\* value in little-endian order in 1, 2 or 4 bytes by magnitude.
C7_WritePacket ==
    op = "write" =>
        LET p == sent[1]
            n == IF opArg <= 255 THEN 1 ELSE IF opArg <= 65535 THEN 2 ELSE 4
        IN  /\ Len(sent) = 1
            /\ Len(p) = 4 + n
            /\ p[1] = opAddr % 256
            /\ p[2] = (opAddr \div 256) % 128
            /\ p[3] = n
            /\ p[4] = 0
            /\ \A i \in 5..Len(p) : p[i] \in 0..255
            /\ p[5] + (IF n >= 2 THEN 256 * p[6] ELSE 0) = opArg % 65536
            /\ (IF n = 4 THEN p[7] + 256 * p[8] ELSE 0) = opArg \div 65536
            /\ (opAddr = 3 /\ opArg = 0) => p = <<3, 0, 1, 0, 0>>

C7_Witness ==
    /\ op = "write"
    /\ opAddr = 3
    /\ opArg = 305419896
    /\ sent = << <<3, 0, 4, 0, 120, 86, 52, 18>> >>

\* a frame whose first two bytes are both 0xFF
IsSentinel(data) == data[1] = 255 /\ data[2] = 255

\* C8: a read skips a frame iff its first two bytes are both 0xFF, and
\* returns bytes 4 .. 4+length of the first frame that is not one.
C8_SkipsExactlySentinels ==
    op = "read" =>
        \A i \in 1..Len(frames) :
            LET skipped == i < Len(frames) \/ result = <<"None">>
            IN  /\ skipped <=> IsSentinel(frames[i])
                /\ ~skipped =>
                      result = <<"data", SubSeq(frames[i], 5, 4 + opArg)>>

\* C9: a read sends one request and reads at most 6 frames; it returns the
\* payload of the last frame it read as soon as it accepts one, and returns
\* None, after exactly 6 reads, when it accepted none.
C9_ReadBudget ==
    op = "read" =>
        /\ Len(sent) = 1
        /\ Len(frames) <= 6
        /\ rpc \in {"reading", "returned"}
        /\ rpc = "reading" => (Len(frames) < 6 /\ result = <<"None">>)
        /\ (rpc = "returned" /\ result = <<"None">>) => Len(frames) = 6
        /\ result # <<"None">> =>
              /\ rpc = "returned"
              /\ Len(frames) >= 1
              /\ result = <<"data", SubSeq(frames[Len(frames)], 5, 4 + opArg)>>

C9_Witness ==
    /\ op = "read"
    /\ rpc = "returned"
    /\ result = <<"None">>
    /\ Len(frames) = 6
    /\ \A i \in 1..6 : IsSentinel(frames[i])

\* C10: a Transport write failure during playback does not end the
\* playback and does not leave start_animation as an exception.
C10_WriteFaultContained ==
    \A t \in Threads : ~(pc[t] = "raised" /\ exc[t] = "USBError")

\* the register address and the little-endian value a write packet carries
PacketAddress(p) == p[1] + 256 * p[2]

PacketValue(p) ==
    LET n == Len(p) - 4
    IN  p[5] + (IF n >= 2 THEN 256 * p[6] ELSE 0)
             + (IF n >= 3 THEN 65536 * p[7] ELSE 0)
             + (IF n >= 4 THEN 16777216 * p[8] ELSE 0)

\* the states whose table blinks one colour: on, off, on, off
BlinkStates == {notify, intent_recognized, error}

\* the colour and the wait the blink of state s is to use
ClaimedColor(s) ==
    CASE s = notify -> 255
      [] s = intent_recognized -> 65280
      [] s = error -> 16711680

ClaimedWaitMs(s) == IF s = error THEN 200 ELSE 100

\* the value every LED is to hold in frame f of a blink of colour c
BlinkValue(c, f) == IF f % 2 = 1 THEN c ELSE 0

\* C11: a playback of error that is not superseded writes exactly the 4
\* frames [0xFF0000, 0, 0xFF0000, 0] with one 200 ms wait after each frame
\* and completes without waiting on anything else; notify and
\* intent_recognized do the same with 0x0000FF and 0x00FF00 and 100 ms.
C11_BlinkOnlySleeps ==
    \A t \in Threads :
        (arg[t] \in BlinkStates /\ pc[t] \notin {"idle", "raised"}) =>
            /\ pc[t] # "interact"
            /\ Len(log[t]) <= 48
            /\ \A i \in 1..Len(log[t]) :
                  /\ PacketAddress(log[t][i]) = 3 + ((i - 1) % 12)
                  /\ PacketValue(log[t][i]) =
                         BlinkValue(ClaimedColor(arg[t]), ((i - 1) \div 12) + 1)
            /\ pc[t] = "check" =>
                  /\ Len(log[t]) = 12 * (fi[t] - 1)
                  /\ slept[t] = ClaimedWaitMs(arg[t]) * (fi[t] - 1)
            /\ pc[t] = "completed" =>
                  /\ Len(log[t]) = 48
                  /\ slept[t] = 4 * ClaimedWaitMs(arg[t])

\* C12: the packets written do not depend on the identifier: two playbacks
\* of the same state that ran to completion under different identifiers
\* wrote the same packet sequence and slept the same time; for none this is
\* exactly one frame with value 0 at every LED address, followed by one
\* 500 ms wait.
C12_PacketsIgnoreToken ==
    /\ \A t, u \in Threads :
          (pc[t] = "completed" /\ pc[u] = "completed" /\ arg[t] = arg[u]) =>
              /\ log[t] = log[u]
              /\ slept[t] = slept[u]
    /\ \A t \in Threads :
          (pc[t] = "completed" /\ arg[t] = none) =>
              /\ Len(log[t]) = 12
              /\ \A i \in 1..12 :
                    /\ PacketAddress(log[t][i]) = 2 + i
                    /\ PacketValue(log[t][i]) = 0
              /\ slept[t] = 500

C12_Witness ==
    /\ pc["A"] = "completed"
    /\ pc["B"] = "completed"
    /\ tok["A"] # tok["B"]
    /\ arg["A"] = none
    /\ arg["B"] = none
    /\ Len(log["B"]) = 12

\* C13: the initialization write (value 6 to address 0, packet
\* [0, 0, 1, 0, 6]) is issued exactly once, at startup, and precedes every
\* LED register write; no later start_animation call issues it again: every
\* packet of a playback goes to an LED address.
C13_InitWriteOnceAtStartup ==
    /\ svc = "new" => initLog = <<>>
    /\ (svc = "ready" /\ device) => initLog = << <<0, 0, 1, 0, 6>> >>
    /\ \A t \in Threads :
          /\ log[t] # <<>> => initLog = << <<0, 0, 1, 0, 6>> >>
          /\ \A i \in 1..Len(log[t]) :
                /\ log[t][i] # <<0, 0, 1, 0, 6>>
                /\ PacketAddress(log[t][i]) \in 3..14

C13_Witness ==
    /\ requests = 2
    /\ pc["A"] = "completed"
    /\ log["A"] # <<>>
    /\ initLog = << <<0, 0, 1, 0, 6>> >>

\* an int that write packs into n bytes
DataOfLen(n) == CASE n = 1 -> 0 [] n = 2 -> 256 [] n = 4 -> 65536

\* C14: bit 0x80 of the second header byte separates the two directions for
\* every address, addresses with bits above bit 14 included: it is clear in
\* every write packet and set in every read request, and apart from that
\* bit the four header bytes of a read request equal those of a write to
\* the same address with the same length.
C14_DirectionBit ==
    /\ op = "write" => sent[1][2] \in 0..127
    /\ op = "read" =>
          LET r == sent[1]
              w == write(opAddr, DataOfLen(opArg))
          IN  /\ Len(r) = 4
              /\ r[2] \in 128..255
              /\ w[2] \in 0..127
              /\ Len(w) = 4 + opArg
              /\ r[1] = w[1]
              /\ r[2] - 128 = w[2]
              /\ r[3] = w[3]
              /\ r[4] = w[4]

C14_Witness ==
    /\ op = "read"
    /\ opAddr = 32771
    /\ sent[1] = <<3, 128, opArg, 0>>

\* C15: start_animation is the only operation that changes the
\* current-token cell: the identifier in the cell changes only in the step
\* in which a caller enters start_animation and stores its new identifier;
\* a playback never writes the cell, neither when it completes nor when it
\* is cancelled, and frame writes, register reads and sleeps leave it
\* unchanged.
C15_OnlyRequestChangesCell ==
    [][/\ cellId' # cellId =>
              \E t \in Threads :
                  /\ pc[t] \in Resting
                  /\ pc'[t] = "set_active"
                  /\ cellId' = tok'[t]
       /\ \A t \in Threads :
              (pc[t] \in {"dispatch", "interact", "check", "write", "sleep"}
                   /\ pc'[t] # pc[t]) => cellId' = cellId
       /\ (op' # op \/ frames' # frames \/ sent' # sent) => cellId' = cellId
       /\ (log' # log \/ slept' # slept) =>
              (cellId' = cellId \/ \E t \in Threads : pc'[t] = "set_active"
                                                      /\ pc[t] \in Resting)
      ]_vars

C15_Witness ==
    /\ pc["A"] = "cancelled"
    /\ pc["B"] = "completed"
    /\ tok["A"] # tok["B"]
    /\ cellId = tok["B"]
    /\ log["A"] # <<>>

\* C16: every frame of every table assigns a value to each LED address
\* 3..14 and to no other address, and writing one frame issues exactly one
\* write per address 3..14, 12 writes, in ascending address order.
C16_FrameWritesEachLedOnce ==
    \A t \in Threads :
        (fi[t] >= 1 /\ pc[t] \notin {"idle", "raised"}) =>
            /\ DOMAIN Table(branch[t])[fi[t]] = 3..14
            /\ pc[t] = "write" =>
                  /\ pi[t] \in 1..12
                  /\ Len(log[t]) = 12 * (fi[t] - 1) + (pi[t] - 1)
            /\ pc[t] = "sleep" => Len(log[t]) = 12 * fi[t]
            /\ \A i \in 1..Len(log[t]) :
                  PacketAddress(log[t][i]) = 3 + ((i - 1) % 12)

C16_Witness ==
    /\ pc["A"] = "sleep"
    /\ branch["A"] = listening
    /\ fi["A"] = 12
    /\ Len(log["A"]) = 144
    /\ \A j \in 1..12 : PacketAddress(log["A"][132 + j]) = 2 + j

\* the value frame i of the listening table is to give the LED at offset j
ClaimedGreen(i, j) ==
    IF i = j \/ i = (j + 1) % 12 THEN 0
    ELSE IF i = (j + 11) % 12 THEN 16384
    ELSE IF i = (j + 2) % 12 \/ i = (j + 10) % 12 THEN 32512
    ELSE 65024

\* the value the playback of t wrote to the LED at offset j in frame f
Written(t, f, j) == PacketValue(log[t][12 * (f - 1) + j + 1])

\* how many LEDs the playback of t gave value v in frame f
CountOf(t, f, v) == Cardinality({j \in 0..11 : Written(t, f, j) = v})

\* C17: in the listening table frame i (0-based) gives LED 3 + j the value
\* 0 if i = j or i = (j + 1) % 12, 0x004000 if i = (j - 1) % 12, 0x007f00
\* if i = (j + 2) % 12 or i = (j - 2) % 12, and 0x00fe00 otherwise; each
\* frame has two LEDs at 0, one at 0x004000, two at 0x007f00 and seven at
\* 0x00fe00, and frame i + 1 is frame i rotated by one LED position.
C17_ListeningRotates ==
    \A t \in Threads :
        (branch[t] = listening /\ pc[t] = "sleep") =>
            LET f == fi[t] IN
            /\ \A j \in 0..11 : Written(t, f, j) = ClaimedGreen(f - 1, j)
            /\ CountOf(t, f, 0) = 2
            /\ CountOf(t, f, 16384) = 1
            /\ CountOf(t, f, 32512) = 2
            /\ CountOf(t, f, 65024) = 7
            /\ f > 1 =>
                  \A j \in 0..11 :
                      Written(t, f, (j + 1) % 12) = Written(t, f - 1, j)

C17_Witness ==
    /\ branch["A"] = listening
    /\ pc["A"] = "sleep"
    /\ fi["A"] = 2
    /\ Written("A", 2, 1) = 0
    /\ Written("A", 2, 2) = 16384
    /\ Written("A", 2, 0) = 0
    /\ Written("A", 1, 0) = 0

\* the value all LEDs are to hold in frame f (1-based) of a ramp that
\* climbs over up steps 0..up-1 and then descends over down steps
\* down-1..0, each step scaled by k
RampValue(k, up, down, f) ==
    IF f <= up THEN k * (f - 1) ELSE k * (up + down - f)

ClaimedRamp(s, f) ==
    CASE s = waking_up -> RampValue(2, 20, 15, f)
      [] s = standby -> RampValue(1, 31, 31, f)
      [] s = loading -> RampValue(16, 15, 15, f)

\* C18: in waking_up, standby and loading all LEDs of a frame carry the
\* same value, and the values frame by frame are: waking_up 2*s for
\* s = 0..19 then s = 14..0; standby s for s = 0..30 then s = 30..0; loading
\* 16*s for s = 0..14 then s = 14..0; every value is at most 0xFF, so each
\* of these writes carries a 1-byte payload.
C18_RampsOneByte ==
    \A t \in Threads :
        (branch[t] \in {waking_up, standby, loading}
             /\ pc[t] \in {"sleep", "completed"}) =>
            /\ ClaimedRamp(branch[t], fi[t]) \in 0..255
            /\ \A j \in 1..12 :
                  log[t][12 * (fi[t] - 1) + j] =
                      <<2 + j, 0, 1, 0, ClaimedRamp(branch[t], fi[t])>>
            /\ pc[t] = "completed" =>
                  /\ ClaimedRamp(branch[t], fi[t]) = 0
                  /\ fi[t] = CASE branch[t] = waking_up -> 20 + 15
                               [] branch[t] = standby -> 31 + 31
                               [] branch[t] = loading -> 15 + 15

C18_Witness ==
    /\ branch["A"] = loading
    /\ pc["A"] = "sleep"
    /\ fi["A"] = 16
    /\ log["A"][12 * 14 + 1] = <<3, 0, 1, 0, 224>>
    /\ log["A"][12 * 15 + 12] = <<14, 0, 1, 0, 224>>

\* C19: cancellation is observed only at frame boundaries: a playback that
\* passed the check of a frame writes all 12 pairs of that frame and then
\* sleeps the full delay before its next check, also when its identifier is
\* superseded in between; a cancelled playback leaves no frame partially
\* written.
C19_CancelOnlyAtFrameBoundary ==
    [][\A t \in Threads :
          /\ pc[t] = "write" =>
                /\ pc'[t] \in {"write", "sleep"}
                /\ Len(log'[t]) >= Len(log[t])
                /\ pc'[t] = "sleep" => Len(log'[t]) = 12 * fi[t]
          /\ pc[t] = "sleep" =>
                /\ pc'[t] \in {"sleep", "interact", "check", "completed"}
                /\ pc'[t] # "sleep" =>
                      slept'[t] = slept[t] + Delay(branch[t])
          /\ pc'[t] = "cancelled" =>
                /\ pc[t] \in {"check", "cancelled"}
                /\ Len(log'[t]) = 12 * (fi'[t] - 1)
                /\ slept'[t] = Delay(branch'[t]) * (fi'[t] - 1)
      ]_vars

C19_Witness ==
    /\ pc["A"] = "cancelled"
    /\ superseded["A"] = "mid"
    /\ fi["A"] = 2
    /\ Len(log["A"]) = 12
    /\ slept["A"] = Delay(branch["A"])
    /\ Len(log["B"]) < 12

\* C20: start_animation plays inside the calling thread and returns only
\* when the playback has ended; with a single caller playbacks never
\* overlap, no playback is cancelled, and each requested animation's
\* complete frame sequence is written in request order: a call is made only
\* when the playback of the call before it has completed, it starts with
\* nothing written, and it ends with every packet of the table of the state
\* it was called with.
C20_SingleCallerSequential ==
    [][/\ \A t \in Threads : pc'[t] # "cancelled"
       /\ Cardinality({t \in Threads : pc'[t] \notin Resting}) <= 1
       /\ \A t \in Threads :
              (animator /\ pc'[t] # pc[t] /\ pc[t] \in Resting) =>
                  /\ pc[t] \in {"idle", "completed"}
                  /\ pc'[t] = "set_active"
                  /\ log'[t] = <<>>
       /\ \A t \in Threads :
              (pc'[t] = "completed" /\ pc[t] # "completed") =>
                  /\ branch[t] = arg[t]
                  /\ Len(log'[t]) = 12 * Len(Table(arg[t]))
                  /\ \A i \in 1..Len(log'[t]) :
                         log'[t][i] = ExpectedPacket(arg[t], i)
      ]_vars

C20_Witness ==
    /\ requests = 2
    /\ pc["A"] = "completed"
    /\ arg["A"] = standby
    /\ Len(log["A"]) = 12 * 62

====
